---- MODULE Spec2Model ----
(***************************************************************************)
(* The tf.data pipelines of the lidbox example notebooks                   *)
(* (common-voice-augmenting: pipeline_from_metadata, and                   *)
(* common-voice-embeddings: pipeline_from_meta), modelled as a state       *)
(* machine over the rows of one split: every row of the split moves        *)
(* through the stages the notebook composes, the file cache is filled by   *)
(* the first full traversal and read by the later ones.                    *)
(***************************************************************************)
EXTENDS Integers, Sequences, FiniteSets, TLC

\* ------------------------------------------------------------------------
\* Bounds of the model
\* ------------------------------------------------------------------------
\* rows of the modelled split
NumRecords == 2
\* traversals (iterators) of the split pipeline that are started
MaxTraversals == 2
\* the number of parallel calls TF_AUTOTUNE resolves to
Parallelism == 2
\* depth of a prefetch buffer (1000 in the notebooks, scaled down)
PrefetchDepth == 1
\* files of the split that are not an ordinary clip (undecodable, silence
\* only, shorter than one analysis frame)
MaxBadFiles == 1
\* rows of the train split that are oversampled copies
MaxCopies == 1
\* consumers that open an iterator of the same split pipeline concurrently
NumConsumers == 2
\* longest signal (in samples) random_speed_change is applied to on its own
MaxLen == 12
\* rows of one label in one split of the metadata that is oversampled
MaxPerLabel == 2
\* runs of the cell that builds the split pipelines
MaxRuns == 3
\* firings of the capture interval of the browser demo
MaxTicks == 2
\* calls of the exported stopApp from outside index.ts
MaxStops == 2

\* ------------------------------------------------------------------------
\* Program constants
\* ------------------------------------------------------------------------
\* frame length and step of audio.spectrograms in samples (25 ms and 10 ms
\* at the 16 kHz rate read_mp3 resamples to)
FrameLength == 400
FrameStep == 160
\* speed ratios are written in hundredths: lo = 0.9, hi = 1.1
RatioScale == 100
lo == 90
hi == 110

Notebooks == {"augmenting", "embeddings"}
Splits == {"train", "dev", "test"}
Ids == 1..NumRecords

\* lengths (in samples) of a conditioned signal: silence only, shorter than
\* one analysis frame, exactly one frame
Lens == {0, 1, FrameLength}
\* what audio.read_mp3 and the conditioning make of the file of a row
Files == {[ok |-> FALSE, len |-> 0]} \cup {[ok |-> TRUE, len |-> l] : l \in Lens}
GoodFile == [ok |-> TRUE, len |-> FrameLength]
\* undecodable files first, then by the length of the conditioned signal
FileRank(f) == IF f.ok THEN f.len + 1 ELSE 0
\* the values np_rng.uniform(lo, hi) is sampled at: the slowest and the
\* fastest ratio (hi itself is excluded)
SpeedRatios == {lo, hi - 1}

VARIABLES
    nb,        \* the notebook whose pipeline is modelled
    split,     \* the split whose pipeline is modelled
    ds,        \* split2ds[split], the pipeline built for the split
    meta,      \* the metadata rows of the split: id -> [is_copy, file]
    order,     \* row order of the dataset built by from_tensor_slices
    sampled,   \* executions of data.sample(frac=1) on the rows of the split
    cache,     \* the cache file of the split: [state, entries]
    phase,     \* "idle" or "running" (an iterator of the pipeline is open)
    trav,      \* number of traversals started so far
    rows,      \* ids the open iterator yields, in order
    done,      \* id -> number of pipeline stages executed in this traversal
    status,    \* id -> "live", "dropped" (filtered out), "failed" (raised) or
               \* "absent" (not in the cache file the iterator reads)
    x,         \* id -> the dict flowing through the pipeline
    np_rng,    \* number of draws made from the shared generator np_rng
    nDecode,   \* id -> executions of read_mp3 since a cache file was last discarded
    results,   \* how the first and the latest closed traversal ended: "ok"
               \* or the error raised to the consumer
    rngAtStart \* draws made from np_rng before the open iterator was opened

\* state of the scenarios that are modelled apart from the sequential
\* notebook run
VARIABLES
    it,        \* concurrent consumer -> its iterator: [mode, pos, got]
    lock,      \* the consumer whose iterator holds the lockfile of the cache, or 0
    ids,       \* ds_to_embeddings: the list ids
    embeddings, \* ds_to_embeddings: the list embeddings
    df,        \* the DataFrame ds_to_embeddings returns: [index, embedding]
    joined,    \* meta after the join: id -> its embedding column
    sig,       \* random_speed_change: the signal s it is called with
    resampled, \* random_speed_change: the signal it returns
    table,     \* the DataFrame meta after meta.assign(is_copy=False)
    augmented_train, \* the DataFrame random_oversampling returns
    balanced,  \* the DataFrame meta after the pd.concat
    cachedirData, \* the directory os.path.join(cachedir, "data") exists
    cacheFiles,   \* the splits that have a complete cache file in it
    kernel,       \* the run of the notebook: "fresh" before the cell that
                  \* builds split2ds, then "built" or "FileExistsError"
    run,          \* runs of that cell so far
    running,          \* state.running
    renderIntervalID, \* state.renderIntervalID
    mainAt,      \* where main() is: "load" before DOMContentLoaded, the
                 \* await it is suspended at, "returned" or "rejected"
    timer,       \* id of the interval window has active, 0 if none
    ticks,       \* firings of the interval so far
    captures,    \* mic.capture() promises pending
    pixels,      \* tf.browser.toPixels promises pending
    predictions, \* prediction.argMax(1).data() promises pending
    executed,    \* executions of state.spec2logmel
    label,       \* assignments to state.predictionLabel.innerText
    ignored,     \* handleMicrophoneInput has returned at its guard
    unhandled,   \* a promise was rejected with no handler attached
    stops        \* runs of stopApp

concurrent == <<it, lock>>
extraction == <<ids, embeddings, df, joined>>
resampling == <<sig, resampled>>
oversampling == <<table, augmented_train, balanced>>
construction == <<cachedirData, cacheFiles, kernel, run>>
demo == <<running, renderIntervalID, mainAt, timer, ticks, captures, pixels,
          predictions, executed, label, ignored, unhandled, stops>>
aside == <<concurrent, extraction, resampling, oversampling, construction, demo>>

pipeline == <<nb, split, ds, meta, order, sampled, cache, phase, trav, rows, done, status, x,
              np_rng, nDecode, results, rngAtStart>>

vars == <<pipeline, aside>>

Consumers == 1..NumConsumers

\* ------------------------------------------------------------------------
\* Helpers
\* ------------------------------------------------------------------------
RECURSIVE Perms(_)
Perms(S) ==
    IF S = {} THEN {<<>>}
    ELSE UNION {{<<e>> \o p : p \in Perms(S \ {e})} : e \in S}

Identity == [p \in 1..NumRecords |-> p]

IndexOf(seq, e) == CHOOSE k \in 1..Len(seq) : seq[k] = e

NoSignal == [len |-> 0, ratio |-> 0, fir |-> 0]

\* a metadata table is the number of its rows of every kind
Labels == {"A", "B"}
Kinds == [split : Splits, label : Labels, is_copy : BOOLEAN]
\* no table built yet
NoTable == <<>>

\* no DataFrame built yet
NoFrame == [index |-> <<>>, embedding |-> <<>>]
\* ds_to_embeddings has raised instead of returning a DataFrame
Aborted == [index |-> <<0>>, embedding |-> <<>>]
\* the missing value of a row the joined frame has no embedding for
NaN == [of |-> 0, frames |-> 0]

\* the outcomes kept of the closed traversals after one more ended with r
Closed(r) == IF results = <<>> THEN <<r>> ELSE <<results[1], r>>

\* ------------------------------------------------------------------------
\* The functions of the notebooks
\* ------------------------------------------------------------------------
metadata_to_dataset_input(i) ==
    [id |-> i, is_copy |-> meta[i].is_copy,
     keys |-> {"id", "path", "label", "target", "split", "is_copy"},
     signal |-> NoSignal, logmelspec |-> 0]

\* decode, resample, peak normalize, remove silence: len is the length of
\* the conditioned signal of the file
read_mp3(xx, len) ==
    [xx EXCEPT !.keys = @ \cup {"signal", "sample_rate"},
               !.signal = [len |-> len, ratio |-> 0, fir |-> 0]]

signal_is_not_empty(xx) == xx.signal.len > 0

random_speed_change_inverted(s, ratio) ==
    [s EXCEPT !.len = (s.len * ratio) \div RatioScale, !.ratio = ratio]

\* new_len = int(len(s) * r / (ratio * r))
random_speed_change(s, ratio) ==
    [s EXCEPT !.len = (s.len * RatioScale) \div ratio, !.ratio = ratio]

random_speed_change_wrapper_all(xx, ratio) ==
    [xx EXCEPT !.signal = random_speed_change(@, ratio)]

random_speed_change_wrapper(xx, ratio) ==
    IF ~xx.is_copy THEN xx
    ELSE [xx EXCEPT !.signal = random_speed_change(@, ratio)]

\* b is the draw of np_rng the coefficients come from; lfilter keeps the
\* length of the signal
random_filter(s, b) == [s EXCEPT !.fir = b]

random_filter_wrapper(xx, b) == [xx EXCEPT !.signal = random_filter(@, b)]

\* frames of the spectrogram of a signal of len samples
NumFrames(len) ==
    IF len < FrameLength THEN 0 ELSE 1 + ((len - FrameLength) \div FrameStep)

batch_extract_features(xx) ==
    [xx EXCEPT !.keys = @ \cup {"logmelspec"},
               !.logmelspec = NumFrames(xx.signal.len)]

pipeline_from_metadata_cache_last(s) ==
    <<"read_mp3", "filter", "prefetch">>
    \o (IF s = "train" THEN <<"speed", "rfilter">> ELSE <<>>)
    \o <<"cache", "prefetch", "extract">>

\* the stages pipeline_from_metadata chains for a split
pipeline_from_metadata(s) ==
    <<"read_mp3", "filter", "prefetch", "cache", "prefetch">>
    \o (IF s = "train" THEN <<"speed", "rfilter">> ELSE <<>>)
    \o <<"extract">>

pipeline_from_meta_filtered(s) ==
    IF s = "test"
    THEN <<"read_mp3", "filter", "extract", "cache", "prefetch">>
    ELSE <<"read_mp3", "filter", "cache", "prefetch", "speed", "rfilter", "extract">>

pipeline_from_meta_no_test_branch(s) ==
    <<"read_mp3", "cache", "prefetch", "speed", "rfilter", "extract">>

\* the stages pipeline_from_meta chains for a split
pipeline_from_meta(s) ==
    IF s = "test"
    THEN <<"read_mp3", "extract", "cache", "prefetch">>
    ELSE <<"read_mp3", "cache", "prefetch", "speed", "rfilter", "extract">>

\* a prefetch only buffers the output of the stage before it; the other
\* stages transform rows
NotPrefetch(name) == name # "prefetch"

StageNames == {"read_mp3", "filter", "cache", "speed", "rfilter", "extract"}

\* the dataset object a chain of stages builds: its transforming stages, the
\* stages whose output is prefetched and the place of each stage (0: absent)
Dataset(chain) ==
    LET stages == SelectSeq(chain, NotPrefetch)
        at(j) == Cardinality({m \in 1..j : chain[m] # "prefetch"})
    IN  [stages |-> stages,
         prefetched |-> {at(j) : j \in {m \in 1..(Len(chain) - 1) : chain[m + 1] = "prefetch"}},
         idx |-> [n \in StageNames |->
                    IF \E k \in 1..Len(stages) : stages[k] = n
                    THEN IndexOf(stages, n) ELSE 0]]

\* split2ds[split] of the notebook
split2ds(n, s) ==
    Dataset(IF n = "augmenting" THEN pipeline_from_metadata(s)
            ELSE pipeline_from_meta(s))

Stages == ds.stages
CacheIdx == ds.idx["cache"]
\* the consumer's pull is the step after the last stage
EmitIdx == Len(ds.stages) + 1

\* stages mapped with num_parallel_calls=TF_AUTOTUNE run Parallelism calls
\* at once, all other stages one
Width(name) ==
    IF name \in {"read_mp3", "rfilter", "extract"} THEN Parallelism
    ELSE IF name = "speed" /\ nb = "augmenting" THEN Parallelism
    ELSE 1

CacheMiss_always == TRUE

\* tf.data's cache runs its input only while no complete cache file exists
CacheMiss == cache.state # "complete"

\* ------------------------------------------------------------------------
\* Scheduling of the stages
\* ------------------------------------------------------------------------
Terminal(i) == status[i] = "dropped" \/ (status[i] = "live" /\ done[i] = EmitIdx)

\* the rows in the prefetch buffer behind stage k: stage k has run on them
\* in this traversal, the next stage has not
Buffer(k) ==
    {i \in Ids : /\ status[i] = "live"
                 /\ done[i] = k
                 \* an iterator that reads the cache file does not run the
                 \* stages before the cache
                 /\ (k >= CacheIdx \/ cache.state # "complete")}

HasRoom_always(k) == TRUE

\* .prefetch(1000): a full buffer stops the stage that fills it
HasRoom(k) == k \in ds.prefetched => Cardinality(Buffer(k)) < PrefetchDepth

CanRun_unordered(p, k) ==
    /\ phase = "running"
    /\ p \in 1..Len(rows)
    /\ status[rows[p]] = "live"
    /\ done[rows[p]] = k - 1
    /\ LET width == IF k = EmitIdx THEN 1 ELSE Width(Stages[k])
       IN  Cardinality({q \in 1..(p - 1) :
                           status[rows[q]] # "dropped" /\ done[rows[q]] = k - 1}) < width
    /\ HasRoom(k)

\* the row at position p of the open iterator can run stage k: it has run
\* the stages before k, the rows before it have been handed to stage k (the
\* stages deliver in order) and fewer than Width of them are still in it
CanRun(p, k) ==
    /\ phase = "running"
    /\ p \in 1..Len(rows)
    /\ status[rows[p]] = "live"
    /\ done[rows[p]] = k - 1
    /\ \A q \in 1..(p - 1) : status[rows[q]] = "dropped" \/ done[rows[q]] >= k - 1
    /\ LET width == IF k = EmitIdx THEN 1 ELSE Width(Stages[k])
       IN  Cardinality({q \in 1..(p - 1) :
                           status[rows[q]] # "dropped" /\ done[rows[q]] = k - 1}) < width
    /\ HasRoom(k)

Blank == [i \in Ids |-> metadata_to_dataset_input(i)]

\* index.ts has been evaluated, DOMContentLoaded has not fired
DemoNotLoaded ==
    /\ running = FALSE
    /\ renderIntervalID = 0
    /\ mainAt = "load"
    /\ timer = 0
    /\ ticks = 0
    /\ captures = 0
    /\ pixels = 0
    /\ predictions = 0
    /\ executed = 0
    /\ label = 0
    /\ ignored = FALSE
    /\ unhandled = FALSE
    /\ stops = 0

\* ------------------------------------------------------------------------
\* Initial state: the pipelines are built, nothing is cached
\* ------------------------------------------------------------------------
Init ==
    /\ nb \in Notebooks
    /\ split \in Splits
    /\ ds = split2ds(nb, split)
    /\ meta \in [Ids -> {[is_copy |-> c, file |-> f] : c \in BOOLEAN, f \in Files}]
    /\ Cardinality({i \in Ids : ~meta[i].is_copy /\ meta[i].file # GoodFile}) <= MaxBadFiles
    \* random oversampling appends copies of rows of the train split to it
    /\ \A i \in Ids : meta[i].is_copy => split = "train"
    /\ \A i, j \in Ids : (meta[i].is_copy /\ i < j) => meta[j].is_copy
    /\ Cardinality({i \in Ids : meta[i].is_copy}) <= MaxCopies
    /\ \A i \in Ids : meta[i].is_copy =>
          \E j \in Ids : ~meta[j].is_copy /\ meta[j].file = meta[i].file
    \* the ids of the train split are names given after the shuffle: the
    \* originals, and the copies, are numbered by the length of their signal
    /\ \A i, j \in Ids :
          (split = "train" /\ i < j /\ meta[i].is_copy = meta[j].is_copy)
          => FileRank(meta[i].file) <= FileRank(meta[j].file)
    \* data.sample(frac=1) shuffles the rows of the train split
    /\ order \in (IF split = "train" THEN Perms(Ids) ELSE {Identity})
    /\ sampled = IF split = "train" THEN 1 ELSE 0
    /\ cache = [state |-> "none", entries |-> <<>>]
    /\ phase = "idle"
    /\ trav = 0
    /\ rows = <<>>
    /\ done = [i \in Ids |-> 0]
    /\ status = [i \in Ids |-> "live"]
    /\ x = Blank
    /\ np_rng = 0
    /\ nDecode = [i \in Ids |-> 0]
    /\ results = <<>>
    /\ rngAtStart = 0
    /\ it = [c \in Consumers |-> [mode |-> "closed", pos |-> 0, got |-> <<>>]]
    /\ lock = 0
    /\ ids = <<>>
    /\ embeddings = <<>>
    /\ df = NoFrame
    /\ joined = <<>>
    /\ sig = NoSignal
    /\ resampled = NoSignal
    /\ table = NoTable
    /\ augmented_train = NoTable
    /\ balanced = NoTable
    /\ cachedirData = FALSE
    /\ cacheFiles = {}
    /\ kernel = "fresh"
    /\ run = 0
    /\ DemoNotLoaded

\* ------------------------------------------------------------------------
\* Actions
\* ------------------------------------------------------------------------
\* a consumer opens an iterator of the split pipeline
StartTraversal ==
    /\ phase = "idle"
    /\ trav < MaxTraversals
    /\ phase' = "running"
    /\ trav' = trav + 1
    /\ IF CacheMiss
       THEN /\ rows' = order
            /\ done' = [i \in Ids |-> 0]
            /\ status' = [i \in Ids |-> "live"]
            /\ cache' = [state |-> "writing", entries |-> <<>>]
       ELSE /\ rows' = [p \in 1..Len(cache.entries) |-> cache.entries[p].id]
            /\ done' = [i \in Ids |-> CacheIdx - 1]
            /\ status' = [i \in Ids |->
                             IF \E p \in 1..Len(cache.entries) : cache.entries[p].id = i
                             THEN "live" ELSE "absent"]
            /\ cache' = cache
    /\ x' = Blank
    /\ rngAtStart' = np_rng
    /\ UNCHANGED <<aside, nb, split, ds, meta, order, sampled, np_rng, nDecode, results>>

\* .map(read_mp3, num_parallel_calls=TF_AUTOTUNE)
ReadMp3(p) ==
    LET k == ds.idx["read_mp3"] IN
        /\ k > 0
        /\ CanRun(p, k)
        /\ LET i == rows[p] IN
           /\ done' = [done EXCEPT ![i] = k]
           /\ nDecode' = [nDecode EXCEPT ![i] = @ + 1]
           /\ IF meta[i].file.ok
              THEN /\ x' = [x EXCEPT ![i] = read_mp3(@, meta[i].file.len)]
                   /\ status' = status
              ELSE /\ x' = x
                   /\ status' = [status EXCEPT ![i] = "failed"]
        /\ UNCHANGED <<aside, nb, split, ds, meta, order, sampled, cache, phase, trav, rows,
                       np_rng, results, rngAtStart>>

\* .filter(signal_is_not_empty)
Filter(p) ==
    LET k == ds.idx["filter"] IN
        /\ k > 0
        /\ CanRun(p, k)
        /\ LET i == rows[p] IN
           /\ done' = [done EXCEPT ![i] = k]
           /\ status' = [status EXCEPT ![i] =
                            IF signal_is_not_empty(x[i]) THEN "live" ELSE "dropped"]
        /\ UNCHANGED <<aside, nb, split, ds, meta, order, sampled, cache, phase, trav, rows, x,
                       np_rng, nDecode, results, rngAtStart>>

\* .cache(file): the first traversal appends the row to the file, the later
\* ones read it from the file
Cache(p) ==
    LET k == ds.idx["cache"] IN
        /\ k > 0
        /\ CanRun(p, k)
        /\ LET i == rows[p] IN
           /\ done' = [done EXCEPT ![i] = k]
           /\ IF cache.state = "writing"
              THEN /\ cache' = [cache EXCEPT !.entries = Append(@, x[i])]
                   /\ x' = x
              ELSE /\ cache' = cache
                   /\ x' = [x EXCEPT ![i] = cache.entries[p]]
        /\ UNCHANGED <<aside, nb, split, ds, meta, order, sampled, phase, trav, rows, status,
                       np_rng, nDecode, results, rngAtStart>>

\* the input of the cache is exhausted: the cache file is complete
CacheEnd ==
    /\ phase = "running"
    /\ cache.state = "writing"
    /\ \A i \in Ids : status[i] = "dropped" \/ (status[i] = "live" /\ done[i] >= CacheIdx)
    /\ cache' = [cache EXCEPT !.state = "complete"]
    /\ UNCHANGED <<aside, nb, split, ds, meta, order, sampled, phase, trav, rows, done, status, x,
                   np_rng, nDecode, results, rngAtStart>>

\* random_speed_change_wrapper (augmenting) or
\* ds_steps.random_signal_speed_change with flag="is_copy" (embeddings);
\* only the former draws the ratio from np_rng.  Resampling to zero samples
\* either raises or yields an empty signal.
SpeedChange(p) ==
    LET k == ds.idx["speed"] IN
        /\ k > 0
        /\ CanRun(p, k)
        /\ \E ratio \in SpeedRatios :
            LET i == rows[p]
                y == random_speed_change_wrapper(x[i], ratio)
                drawn == y.signal.ratio # x[i].signal.ratio
            IN  /\ done' = [done EXCEPT ![i] = k]
                /\ np_rng' = IF drawn /\ nb = "augmenting" THEN np_rng + 1 ELSE np_rng
                /\ \/ /\ x' = [x EXCEPT ![i] = y]
                      /\ status' = status
                   \/ /\ drawn
                      /\ y.signal.len = 0
                      /\ x' = x
                      /\ status' = [status EXCEPT ![i] = "failed"]
        /\ UNCHANGED <<aside, nb, split, ds, meta, order, sampled, cache, phase, trav, rows,
                       nDecode, results, rngAtStart>>

\* random_filter_wrapper (augmenting) or random_filter (embeddings): one
\* draw of N coefficients from np_rng
RandomFilter(p) ==
    LET k == ds.idx["rfilter"] IN
        /\ k > 0
        /\ CanRun(p, k)
        /\ done' = [done EXCEPT ![rows[p]] = k]
        /\ np_rng' = np_rng + 1
        /\ x' = [x EXCEPT ![rows[p]] = random_filter_wrapper(@, np_rng + 1)]
        /\ UNCHANGED <<aside, nb, split, ds, meta, order, sampled, cache, phase, trav, rows, status,
                       nDecode, results, rngAtStart>>

\* .batch(1).map(batch_extract_features, ...).unbatch()
ExtractFeatures(p) ==
    LET k == ds.idx["extract"] IN
        /\ k > 0
        /\ CanRun(p, k)
        /\ done' = [done EXCEPT ![rows[p]] = k]
        /\ x' = [x EXCEPT ![rows[p]] = batch_extract_features(@)]
        /\ UNCHANGED <<aside, nb, split, ds, meta, order, sampled, cache, phase, trav, rows, status,
                       np_rng, nDecode, results, rngAtStart>>

\* the iterator is destroyed: its rows and buffers are gone
CloseIterator ==
    /\ phase' = "idle"
    /\ rows' = <<>>
    /\ done' = [i \in Ids |-> 0]
    /\ status' = [i \in Ids |-> "live"]
    /\ x' = Blank
    /\ rngAtStart' = np_rng

\* the consumer pulls the next element
Emit(p) ==
    /\ CanRun(p, EmitIdx)
    /\ done' = [done EXCEPT ![rows[p]] = EmitIdx]
    /\ UNCHANGED <<aside, nb, split, ds, meta, order, sampled, cache, phase, trav, rows, status, x,
                   np_rng, nDecode, results, rngAtStart>>

RaiseError_keep_partial(p) ==
    /\ phase = "running"
    /\ p \in 1..Len(rows)
    /\ status[rows[p]] = "failed"
    /\ \A q \in 1..(p - 1) : Terminal(rows[q])
    /\ results' = Closed(IF meta[rows[p]].file.ok THEN "ValueError" ELSE "DecodeError")
    /\ cache' = [cache EXCEPT !.state = "complete"]
    /\ CloseIterator
    /\ UNCHANGED <<aside, nb, split, ds, meta, order, sampled, trav, np_rng, nDecode>>

\* the consumer pulls and the error of the failed row at position p is
\* raised to it: the iterator is closed, an incomplete cache file is discarded
RaiseError(p) ==
    /\ phase = "running"
    /\ p \in 1..Len(rows)
    /\ status[rows[p]] = "failed"
    /\ \A q \in 1..(p - 1) : Terminal(rows[q])
    /\ results' = Closed(IF meta[rows[p]].file.ok THEN "ValueError" ELSE "DecodeError")
    /\ cache' = IF cache.state = "complete" THEN cache
                ELSE [state |-> "none", entries |-> <<>>]
    /\ nDecode' = IF cache.state = "complete" THEN nDecode ELSE [i \in Ids |-> 0]
    /\ CloseIterator
    /\ UNCHANGED <<aside, nb, split, ds, meta, order, sampled, trav, np_rng>>

\* the consumer pulls and the pipeline is exhausted
EndTraversal ==
    /\ phase = "running"
    /\ cache.state = "complete"
    /\ \A p \in 1..Len(rows) : Terminal(rows[p])
    /\ results' = Closed("ok")
    /\ CloseIterator
    /\ UNCHANGED <<aside, nb, split, ds, meta, order, sampled, cache, trav, np_rng, nDecode>>

Next ==
    \/ StartTraversal
    \/ \E p \in 1..NumRecords : ReadMp3(p)
    \/ \E p \in 1..NumRecords : Filter(p)
    \/ \E p \in 1..NumRecords : Cache(p)
    \/ CacheEnd
    \/ \E p \in 1..NumRecords : SpeedChange(p)
    \/ \E p \in 1..NumRecords : RandomFilter(p)
    \/ \E p \in 1..NumRecords : ExtractFeatures(p)
    \/ \E p \in 1..NumRecords : Emit(p)
    \/ \E p \in 1..NumRecords : RaiseError(p)
    \/ EndTraversal

Spec == Init /\ [][Next]_vars

TypeOK ==
    /\ phase \in {"idle", "running"}
    /\ trav \in 0..MaxTraversals
    /\ cache.state \in {"none", "writing", "complete"}
    /\ \A i \in Ids : done[i] \in 0..EmitIdx
    /\ \A i \in Ids : status[i] \in {"live", "dropped", "failed", "absent"}
\* ------------------------------------------------------------------------
\* Properties
\* ------------------------------------------------------------------------
Emitted(i) == status[i] = "live" /\ done[i] = EmitIdx
Extracted(i) == status[i] = "live" /\ "logmelspec" \in x[i].keys
CachedIds == {cache.entries[p].id : p \in 1..Len(cache.entries)}
FirstPassOk == Len(results) >= 1 /\ results[1] = "ok"

\* C1: once the first traversal of the split has run to completion (the
\* cache-filling pass), read_mp3 has been executed exactly once for every
\* identifier, and no later traversal executes it again.
C1_DecodeOncePerId ==
    FirstPassOk => \A i \in Ids : nDecode[i] = 1

\* a later traversal has emitted all rows of a split that was cached by the
\* first one
C1_Witness ==
    /\ FirstPassOk
    /\ trav = MaxTraversals
    /\ phase = "running"
    /\ Len(rows) = NumRecords
    /\ \A i \in Ids : Emitted(i)
\* C2: a complete cache file is never modified again: no step of a later
\* traversal (speed change, random filtering, ...) changes its entries.
C2_CacheImmutable ==
    [][cache.state = "complete" => cache' = cache]_vars

\* a later train traversal has emitted a sped-up, filtered copy while the
\* cache still holds the conditioned signal read_mp3 produced for it
C2_Witness ==
    /\ split = "train"
    /\ trav >= 2
    /\ cache.state = "complete"
    /\ \E i \in Ids :
          /\ Emitted(i)
          /\ x[i].is_copy
          /\ x[i].signal.ratio \in SpeedRatios
          /\ x[i].signal.fir > 0
          /\ \E p \in 1..Len(cache.entries) :
                /\ cache.entries[p].id = i
                /\ cache.entries[p].signal = [len |-> meta[i].file.len, ratio |-> 0, fir |-> 0]

\* C3: for the train split the cache holds un-augmented conditioned signals,
\* and in every traversal a row reaches feature extraction only after the
\* cache and after a random filter (for copies also a speed change) drawn
\* during this traversal.
C3_AugmentAfterCache ==
    split = "train" =>
        /\ \A p \in 1..Len(cache.entries) :
              /\ cache.entries[p].signal.ratio = 0
              /\ cache.entries[p].signal.fir = 0
              /\ "logmelspec" \notin cache.entries[p].keys
        /\ \A i \in Ids : Extracted(i) =>
              /\ done[i] > CacheIdx
              /\ x[i].signal.fir > rngAtStart
              /\ x[i].is_copy => x[i].signal.ratio \in SpeedRatios

\* the last traversal of a train split has extracted the features of all
\* rows, one of them a copy
C3_Witness ==
    /\ split = "train"
    /\ trav = MaxTraversals
    /\ FirstPassOk
    /\ Len(rows) = NumRecords
    /\ \A i \in Ids : Extracted(i) /\ x[i].signal.fir > rngAtStart
    /\ \E i \in Ids : x[i].is_copy

\* C4 (as claimed): a row whose conditioned signal has zero samples is never
\* written to the cache, never feature-extracted and never emitted.
C4_EmptyDroppedBeforeCache ==
    \A i \in Ids : (meta[i].file.ok /\ meta[i].file.len = 0) =>
        /\ i \notin CachedIds
        /\ ~Extracted(i)
        /\ ~Emitted(i)

\* C5 (as claimed): behind the empty-signal filter of pipeline_from_metadata,
\* every signal passed to batch_extract_features yields at least one
\* spectrogram frame.
C5_AtLeastOneFrame ==
    nb = "augmenting" =>
        \A i \in Ids : "logmelspec" \in x[i].keys => x[i].logmelspec >= 1

\* C6: the speed-change stage returns a row with is_copy = false unchanged
\* and draws nothing for it, in every traversal.
C6_SpeedOnlyCopies ==
    [][\A i \in Ids :
          ( /\ ds.idx["speed"] > 0
            /\ phase = "running" /\ phase' = "running"
            /\ ~meta[i].is_copy
            /\ done[i] = ds.idx["speed"] - 1
            /\ done'[i] = ds.idx["speed"] )
          => (x'[i] = x[i] /\ status'[i] = status[i] /\ np_rng' = np_rng)]_vars

\* in a later train traversal an original row has passed the speed change
\* untouched while a copy was resampled
C6_Witness ==
    /\ split = "train"
    /\ trav >= 2
    /\ phase = "running"
    /\ \E i, j \in Ids :
          /\ ~meta[i].is_copy /\ status[i] = "live" /\ done[i] = ds.idx["speed"]
          /\ x[i].signal = [len |-> meta[i].file.len, ratio |-> 0, fir |-> 0]
          /\ meta[j].is_copy /\ status[j] = "live" /\ done[j] >= ds.idx["speed"]
          /\ x[j].signal.ratio \in SpeedRatios

\* C7 (as claimed): every train row is randomly filtered, and no row of
\* another split passes through the speed change or the random filter.
C7_AugmentOnlyTrain ==
    /\ split = "train" => \A i \in Ids : Extracted(i) => x[i].signal.fir > 0
    /\ split # "train" => \A i \in Ids :
          /\ x[i].signal.fir = 0
          /\ x[i].signal.ratio = 0
          /\ ~(phase = "running" /\ status[i] = "live"
                /\ ds.idx["speed"] > 0 /\ done[i] >= ds.idx["speed"])

\* C8 (as claimed): the train cache holds pre-augmentation signals and the
\* cache of dev and test holds feature matrices.
C8_EvalCachesFeatures ==
    \A p \in 1..Len(cache.entries) :
        /\ split = "train" => "logmelspec" \notin cache.entries[p].keys
        /\ split \in {"dev", "test"} => "logmelspec" \in cache.entries[p].keys

\* C8 (amended): the entries of a cache are all of one kind; they are
\* feature matrices only in the test cache of pipeline_from_meta, and
\* un-augmented conditioned signals in every other cache.
C8_CacheKinds ==
    \A p \in 1..Len(cache.entries) :
        /\ "signal" \in cache.entries[p].keys
        /\ cache.entries[p].signal.ratio = 0
        /\ cache.entries[p].signal.fir = 0
        /\ ("logmelspec" \in cache.entries[p].keys) <=> (nb = "embeddings" /\ split = "test")

\* the test cache of the embeddings notebook is complete and holds a feature
\* matrix for every row
C8_Witness ==
    /\ nb = "embeddings"
    /\ split = "test"
    /\ cache.state = "complete"
    /\ Len(cache.entries) = NumRecords
    /\ \A p \in 1..Len(cache.entries) : "logmelspec" \in cache.entries[p].keys

\* C9 (as claimed): when the only failures of a traversal are decode
\* failures, nothing is raised to the consumer and every other row of the
\* split reaches the end of the pipeline (emitted, or filtered out as empty).
C9_DecodeFailureIsolated ==
    [][( /\ phase = "running" /\ phase' = "idle"
         /\ \E j \in Ids : status[j] = "failed"
         /\ \A j \in Ids : status[j] = "failed" => ~meta[j].file.ok )
       => /\ results'[Len(results')] = "ok"
          /\ \A i \in Ids : status[i] # "failed" => Terminal(i)]_vars

\* C10 (as claimed): when a traversal is closed every row of it has reached
\* exactly one terminal state, Emitted or Dropped, and a dropped row was
\* never cached, augmented or feature-extracted.
C10_TerminalStates ==
    [][/\ (phase = "running" /\ phase' = "idle") =>
             \A i \in Ids : status[i] = "absent" \/ Terminal(i)
       /\ \A i \in Ids : status[i] = "dropped" =>
             /\ i \notin CachedIds
             /\ x[i].signal.fir = 0 /\ x[i].signal.ratio = 0
             /\ "logmelspec" \notin x[i].keys]_vars
\* C11 (as claimed): the rows of the train split are shuffled anew at the
\* start of every traversal, so that the order of a traversal is not the one
\* of an earlier traversal or of the cache-filling pass.
C11_ReshuffledEachTraversal ==
    [][(split = "train" /\ phase = "idle" /\ phase' = "running")
       => sampled' = sampled + 1]_vars

\* C11 (amended): the order of the train split is drawn once, by
\* data.sample(frac=1) when the pipeline is built, and every traversal of the
\* split pipeline emits the surviving rows in that one order.
C11_OrderDrawnOnce ==
    split = "train" =>
        /\ sampled = 1
        /\ \A p, q \in 1..Len(rows) :
              p < q => IndexOf(order, rows[p]) < IndexOf(order, rows[q])
        /\ \A p, q \in 1..NumRecords :
              (p < q /\ Emitted(order[q]))
              => (Emitted(order[p]) \/ status[order[p]] \in {"dropped", "absent"})

\* a second traversal of a train split whose sampled order is not the
\* metadata order has emitted all rows
C11_Witness ==
    /\ split = "train"
    /\ order # Identity
    /\ trav = 2
    /\ \A i \in Ids : Emitted(i)
\* C12: in every split other than train a traversal emits the surviving rows
\* in metadata order: when a row is emitted, every row before it in the
\* metadata has been emitted already or does not survive, however the
\* parallel calls of read_mp3 and batch_extract_features interleave.
C12_MetadataOrder ==
    split # "train" =>
        \A a, b \in Ids :
            (a < b /\ Emitted(b)) => (Emitted(a) \/ status[a] \in {"dropped", "absent"})

\* the first traversal of a dev or test split has emitted all its rows
C12_Witness ==
    /\ split # "train"
    /\ trav = 1
    /\ \A i \in Ids : Emitted(i)
\* C14 (as claimed): for a fixed seed the draw of np_rng a row gets in a
\* traversal does not depend on how the parallel calls of the augmentation
\* interleave: the rows draw their filter coefficients one after the other,
\* in the order of the traversal.
C14_DrawsInRowOrder ==
    \A p, q \in 1..Len(rows) :
        (p < q /\ x[rows[p]].signal.fir > 0 /\ x[rows[q]].signal.fir > 0)
        => x[rows[p]].signal.fir < x[rows[q]].signal.fir

\* C15 (as claimed): every traversal of a split emits the same set of ids
\* as every other one (the ids the cache-filling pass emitted and cached),
\* and every emitted record carries the id of its own metadata row.
C15_SameIdsEveryTraversal ==
    [][(phase = "running" /\ phase' = "idle" /\ FirstPassOk)
       => /\ {i \in Ids : Emitted(i)} = CachedIds
          /\ \A i \in Ids : Emitted(i) => x[i].id = i]_vars

\* ------------------------------------------------------------------------
\* Several consumers iterate the pipeline of one split at the same time
\* ------------------------------------------------------------------------
\* what the stages before the cache make of row i
PreCache(i) ==
    LET y == read_mp3(Blank[i], meta[i].file.len)
    IN  IF ds.idx["extract"] > 0 /\ ds.idx["extract"] < CacheIdx
        THEN batch_extract_features(y) ELSE y

\* row i passes .filter(signal_is_not_empty), where the pipeline has it
Survives(i) == ds.idx["filter"] = 0 \/ signal_is_not_empty(PreCache(i))

\* the pipelines are built from decodable files, nothing is cached
ConcurrentInit == Init /\ \A i \in Ids : meta[i].file.ok

\* consumer c opens an iterator: the cache stage reads a complete cache
\* file and writes one otherwise
OpenIterator(c) ==
    /\ it[c].mode = "closed"
    /\ it' = [it EXCEPT ![c].mode = IF CacheMiss THEN "write" ELSE "read"]
    /\ UNCHANGED <<nb, split, ds, meta, order, sampled, cache, phase, trav, rows, done,
                   status, x, np_rng, nDecode, results, rngAtStart, lock, extraction, resampling, oversampling, construction, demo>>

\* consumer c pulls from a writing cache stage: the stage refuses to write
\* next to the lockfile or the cache file of another iterator, otherwise it
\* takes the lock, runs its input on the next row and appends the result
WriterPull(c) ==
    /\ it[c].mode = "write"
    /\ it[c].pos < NumRecords
    /\ IF cache.state = "complete" \/ lock \notin {0, c}
       THEN /\ it' = [it EXCEPT ![c].mode = "AlreadyExistsError"]
            /\ UNCHANGED <<cache, nDecode, lock>>
       ELSE LET i == order[it[c].pos + 1] IN
            /\ lock' = c
            /\ nDecode' = [nDecode EXCEPT ![i] = @ + 1]
            /\ cache' = [state |-> "writing",
                         entries |-> IF Survives(i) THEN Append(cache.entries, PreCache(i))
                                     ELSE cache.entries]
            /\ it' = [it EXCEPT ![c].pos = @ + 1,
                                ![c].got = IF Survives(i) THEN Append(@, PreCache(i)) ELSE @]
    /\ UNCHANGED <<nb, split, ds, meta, order, sampled, phase, trav, rows, done,
                   status, x, np_rng, results, rngAtStart, extraction, resampling, oversampling, construction, demo>>

\* the input of the writing cache stage of c is exhausted: the cache file is
\* completed and the lockfile removed
WriterEnd(c) ==
    /\ it[c].mode = "write"
    /\ it[c].pos = NumRecords
    /\ lock = c
    /\ cache' = [cache EXCEPT !.state = "complete"]
    /\ lock' = 0
    /\ it' = [it EXCEPT ![c].mode = "done"]
    /\ UNCHANGED <<nb, split, ds, meta, order, sampled, phase, trav, rows, done,
                   status, x, np_rng, nDecode, results, rngAtStart, extraction, resampling, oversampling, construction, demo>>

\* consumer c pulls from a reading cache stage
ReaderPull(c) ==
    /\ it[c].mode = "read"
    /\ it[c].pos < Len(cache.entries)
    /\ it' = [it EXCEPT ![c].pos = @ + 1, ![c].got = Append(@, cache.entries[it[c].pos + 1])]
    /\ UNCHANGED <<nb, split, ds, meta, order, sampled, cache, phase, trav, rows, done,
                   status, x, np_rng, nDecode, results, rngAtStart, lock, extraction, resampling, oversampling, construction, demo>>

\* the cache file is exhausted
ReaderEnd(c) ==
    /\ it[c].mode = "read"
    /\ it[c].pos = Len(cache.entries)
    /\ it' = [it EXCEPT ![c].mode = "done"]
    /\ UNCHANGED <<nb, split, ds, meta, order, sampled, cache, phase, trav, rows, done,
                   status, x, np_rng, nDecode, results, rngAtStart, lock, extraction, resampling, oversampling, construction, demo>>

NextConcurrent ==
    \/ \E c \in Consumers : OpenIterator(c)
    \/ \E c \in Consumers : WriterPull(c)
    \/ \E c \in Consumers : WriterEnd(c)
    \/ \E c \in Consumers : ReaderPull(c)
    \/ \E c \in Consumers : ReaderEnd(c)

SpecConcurrent == ConcurrentInit /\ [][NextConcurrent]_vars

\* C13 (as claimed): when several consumers ask for the rows of an uncached
\* split at the same time, read_mp3 runs once per id, one cache entry is
\* written per id, and every consumer receives the same results.
C13_ConcurrentCollapse ==
    /\ \A i \in Ids : nDecode[i] <= 1
    /\ \A p, q \in 1..Len(cache.entries) :
          p # q => cache.entries[p].id # cache.entries[q].id
    /\ \A c \in Consumers : it[c].mode # "AlreadyExistsError"
    /\ \A c, d \in Consumers :
          (it[c].mode = "done" /\ it[d].mode = "done") => it[c].got = it[d].got
EmittedRecord(i) ==
    LET y == PreCache(i)
    IN  IF "logmelspec" \in y.keys THEN y ELSE batch_extract_features(y)

\* the x-vector of a record, named after the record it is computed from
xvec_extractor(xx) == [of |-> xx.id, frames |-> xx.logmelspec]

\* batch_extract_embeddings, then to_pair
to_pair(xx) == <<xx.id, xvec_extractor(xx)>>

join_by_position(m, d) == [i \in DOMAIN m |-> d.embedding[i]]

\* meta.join(df, how="outer"): every row of meta gets the row of df that
\* has its index value, and NaN where df has none
join(m, d) ==
    [i \in DOMAIN m |->
        IF \E k \in 1..Len(d.index) : d.index[k] = i
        THEN d.embedding[IndexOf(d.index, i)] ELSE NaN]

\* the ids the pipeline of the split yields to ds_to_embeddings, in order
Yielded == SelectSeq(order, Survives)

\* the pipelines of the embeddings notebook, built for any metadata
ExtractionInit == Init /\ nb = "embeddings"

\* the loop over ds.as_numpy_iterator() takes the next pair:
\* ids.append(id.decode("utf-8"))
AppendId ==
    /\ df = NoFrame
    /\ Len(ids) < Len(Yielded)
    /\ Len(embeddings) = Len(ids)
    /\ meta[Yielded[Len(ids) + 1]].file.ok
    /\ ids' = Append(ids, to_pair(EmittedRecord(Yielded[Len(ids) + 1]))[1])
    /\ UNCHANGED <<pipeline, concurrent, resampling, oversampling, construction, demo, embeddings, df, joined>>

\* embeddings.append(embedding.astype(np.float32))
AppendEmbedding ==
    /\ df = NoFrame
    /\ Len(embeddings) < Len(ids)
    /\ embeddings' = Append(embeddings, to_pair(EmittedRecord(Yielded[Len(ids)]))[2])
    /\ UNCHANGED <<pipeline, concurrent, resampling, oversampling, construction, demo, ids, df, joined>>

\* the iterator raises on the next row (the file is not decodable, or the
\* x-vector model rejects a spectrogram without frames): ds_to_embeddings
\* does not return, no frame is built and nothing is joined
RaiseInLoop ==
    /\ df = NoFrame
    /\ Len(ids) < Len(Yielded)
    /\ Len(embeddings) = Len(ids)
    /\ LET i == Yielded[Len(ids) + 1]
       IN  ~meta[i].file.ok \/ EmittedRecord(i).logmelspec = 0
    /\ df' = Aborted
    /\ UNCHANGED <<pipeline, concurrent, resampling, oversampling, construction, demo, ids, embeddings, joined>>

\* pd.DataFrame.from_dict(...).set_index("id")
SetIndex ==
    /\ df = NoFrame
    /\ Len(ids) = Len(Yielded)
    /\ Len(embeddings) = Len(Yielded)
    /\ df' = [index |-> ids, embedding |-> embeddings]
    /\ UNCHANGED <<pipeline, concurrent, resampling, oversampling, construction, demo, ids, embeddings, joined>>

\* meta = meta.join(...)
Join ==
    /\ df \notin {NoFrame, Aborted}
    /\ joined = <<>>
    /\ joined' = join(meta, df)
    /\ UNCHANGED <<pipeline, concurrent, resampling, oversampling, construction, demo, ids, embeddings, df>>

NextExtraction == AppendId \/ AppendEmbedding \/ RaiseInLoop \/ SetIndex \/ Join

SpecExtraction == ExtractionInit /\ [][NextExtraction]_vars

\* C17: after ds_to_embeddings and the join every metadata row holds the
\* embedding computed from the pipeline record of its own id, in whatever
\* order the pipeline emitted the records.
C17_JoinById ==
    joined # <<>> =>
        \A i \in Ids : joined[i] = xvec_extractor(EmittedRecord(i)) /\ joined[i].of = i

\* the embeddings of a train split whose rows were emitted in another order
\* than the metadata order have been joined
C17_Witness ==
    /\ joined # <<>>
    /\ order # Identity
    /\ df.index = order

\* C21: when the embeddings have been extracted and joined to the metadata,
\* every metadata row has an embedding (the assertion after the join holds),
\* also when the conditioned signal of a row is empty.
C21_NoMissingEmbedding ==
    joined # <<>> => \A i \in Ids : joined[i] # NaN

\* a row whose conditioned signal is empty went through extraction and join
C21_Witness ==
    /\ joined # <<>>
    /\ \E i \in Ids : meta[i].file.ok /\ meta[i].file.len = 0
\* ------------------------------------------------------------------------
\* random_speed_change on its own
\* ------------------------------------------------------------------------
\* a signal of up to MaxLen samples, not yet resampled
ResamplingInit ==
    /\ Init
    /\ nb = "augmenting" /\ split = "train" /\ order = Identity
    /\ \A i \in Ids : meta[i] = [is_copy |-> FALSE, file |-> GoodFile]

\* the signal of the call
TakeSignal ==
    /\ sig = NoSignal
    /\ resampled = NoSignal
    /\ \E l \in 1..MaxLen : sig' = [len |-> l, ratio |-> 0, fir |-> 0]
    /\ UNCHANGED <<pipeline, concurrent, extraction, oversampling, construction, demo, resampled>>

\* ratio = np_rng.uniform(lo, hi), then the resampling to new_len samples
Resample ==
    /\ sig # NoSignal
    /\ resampled = NoSignal
    /\ \E ratio \in lo..(hi - 1) : resampled' = random_speed_change(sig, ratio)
    /\ UNCHANGED <<pipeline, concurrent, extraction, oversampling, construction, demo, sig>>

NextResampling == TakeSignal \/ Resample

SpecResampling == ResamplingInit /\ [][NextResampling]_vars

C19_PrefetchBounded ==
    \A k \in ds.prefetched : Cardinality(Buffer(k)) <= PrefetchDepth

\* a prefetch buffer is full and the next row has run the stages before it
\* and waits for room in the buffer
C19_Witness ==
    /\ phase = "running"
    /\ \E k \in ds.prefetched :
          /\ Cardinality(Buffer(k)) = PrefetchDepth
          /\ \E p \in 1..Len(rows) :
                /\ status[rows[p]] = "live"
                /\ done[rows[p]] = k - 1
                /\ \A q \in 1..(p - 1) : status[rows[q]] = "dropped" \/ done[rows[q]] >= k

\* ---------------------------------------------------------------------------
\* Random oversampling of the train split (augmenting notebook)
\* ---------------------------------------------------------------------------

\* rows of one label in one split of a table, copies included
Count(t, sp, l) ==
    t[[split |-> sp, label |-> l, is_copy |-> FALSE]]
        + t[[split |-> sp, label |-> l, is_copy |-> TRUE]]

\* rows of the largest class of one split of a table
Most(t, sp) ==
    CHOOSE n \in 0..(2 * MaxPerLabel + 2) :
        /\ \E l \in Labels : Count(t, sp, l) = n
        /\ \A l \in Labels : Count(t, sp, l) <= n

\* the oversampling applied to the whole metadata instead of its train split
train_unfiltered(t) == t

\* meta[meta["split"]=="train"]
train(t) == [k \in Kinds |-> IF k.split = "train" THEN t[k] ELSE 0]

\* meta[meta["split"]!="train"]
rest(t) == [k \in Kinds |-> IF k.split # "train" THEN t[k] ELSE 0]

\* lidbox.meta.random_oversampling: every label that has rows in the table
\* it is given is brought to the row count of the largest one by appending
\* copies of its rows, each copy with the copy flag set; the rows it is given
\* are returned as they are
random_oversampling(t) ==
    [k \in Kinds |->
        IF k.is_copy /\ Count(t, k.split, k.label) > 0
        THEN t[k] + (Most(t, k.split) - Count(t, k.split, k.label))
        ELSE t[k]]

\* pd.concat([augmented_train, rest])
concat(a, b) == [k \in Kinds |-> a[k] + b[k]]

\* the metadata as the oversampling cell finds it, after
\* meta.assign(is_copy=False): every label has rows in the train split
OversamplingInit ==
    /\ Init
    /\ nb = "augmenting"
    /\ split = "train"
    /\ order = Identity
    /\ \A i \in Ids : meta[i] = [file |-> GoodFile, is_copy |-> FALSE]

Assign ==
    /\ table = NoTable
    /\ \E t \in [Kinds -> 0..MaxPerLabel] :
          /\ \A k \in Kinds : k.is_copy => t[k] = 0
          /\ \A l \in Labels : Count(t, "train", l) >= 1
          /\ table' = t
    /\ UNCHANGED <<pipeline, concurrent, extraction, resampling, construction, demo,
                   augmented_train, balanced>>

Oversample ==
    /\ table # NoTable
    /\ augmented_train = NoTable
    /\ augmented_train' = random_oversampling(train(table))
    /\ UNCHANGED <<pipeline, concurrent, extraction, resampling, construction, demo, table, balanced>>

Concat ==
    /\ augmented_train # NoTable
    /\ balanced = NoTable
    /\ balanced' = concat(augmented_train, rest(table))
    /\ UNCHANGED <<pipeline, concurrent, extraction, resampling, construction, demo,
                   table, augmented_train>>

NextOversampling ==
    \/ Assign
    \/ Oversample
    \/ Concat

SpecOversampling == OversamplingInit /\ [][NextOversampling]_vars

Unbuilt ==
    /\ split = "train"
    /\ ds = split2ds(nb, split)
    /\ meta = [i \in Ids |-> [is_copy |-> FALSE, file |-> GoodFile]]
    /\ order = Identity
    /\ sampled = 1
    /\ cache = [state |-> "none", entries |-> <<>>]
    /\ phase = "idle"
    /\ trav = 0
    /\ rows = <<>>
    /\ done = [i \in Ids |-> 0]
    /\ status = [i \in Ids |-> "live"]
    /\ x = Blank
    /\ np_rng = 0
    /\ nDecode = [i \in Ids |-> 0]
    /\ results = <<>>
    /\ rngAtStart = 0
    /\ it = [c \in Consumers |-> [mode |-> "closed", pos |-> 0, got |-> <<>>]]
    /\ lock = 0
    /\ ids = <<>>
    /\ embeddings = <<>>
    /\ df = NoFrame
    /\ joined = <<>>
    /\ sig = NoSignal
    /\ resampled = NoSignal
    /\ table = NoTable
    /\ augmented_train = NoTable
    /\ balanced = NoTable

\* the workdir as a run of the notebook finds it: without a cache directory,
\* or with the one an earlier run has made and filled for some of the splits
ConstructionInit ==
    /\ nb \in Notebooks
    /\ Unbuilt
    /\ DemoNotLoaded
    /\ cachedirData \in BOOLEAN
    /\ cacheFiles \in SUBSET Splits
    /\ cacheFiles # {} => cachedirData
    /\ kernel = "fresh"
    /\ run = 0

\* os.makedirs(os.path.join(cachedir, "data")), then split2ds = {...}:
\* makedirs is called without exist_ok and raises FileExistsError when the
\* directory is there, before any pipeline is built
BuildPipelines ==
    /\ kernel = "fresh"
    /\ run < MaxRuns
    /\ run' = run + 1
    /\ IF cachedirData
       THEN /\ kernel' = "FileExistsError"
            /\ cachedirData' = cachedirData
       ELSE /\ kernel' = "built"
            /\ cachedirData' = TRUE
    /\ UNCHANGED <<pipeline, concurrent, extraction, resampling, oversampling, demo, cacheFiles>>

\* the first full traversal of the pipeline of split s completes its cache
\* file
FillCache(s) ==
    /\ kernel = "built"
    /\ s \notin cacheFiles
    /\ cacheFiles' = cacheFiles \cup {s}
    /\ UNCHANGED <<pipeline, concurrent, extraction, resampling, oversampling, demo,
                   cachedirData, kernel, run>>

\* the notebook is run again from the top, on the same workdir
Restart ==
    /\ kernel # "fresh"
    /\ kernel' = "fresh"
    /\ UNCHANGED <<pipeline, concurrent, extraction, resampling, oversampling, demo,
                   cachedirData, cacheFiles, run>>

NextConstruction ==
    \/ BuildPipelines
    \/ \E s \in Splits : FillCache(s)
    \/ Restart

SpecConstruction == ConstructionInit /\ [][NextConstruction]_vars

\* C22 (as claimed): the cell that builds the split pipelines succeeds on a
\* cache directory that already exists and is filled, and the pipelines it
\* builds reuse the cache files that are there.
C22_RebuildReusesCache ==
    [][(kernel = "fresh" /\ run' = run + 1 /\ cacheFiles = Splits)
       => kernel' = "built"]_vars

\* ---------------------------------------------------------------------------
\* The browser demo (web/src/index.ts): one step per event-loop task
\* ---------------------------------------------------------------------------
\* the promises main awaits, in order
Awaits == <<"setBackend", "microphone", "loadGraphModel", "loadLayersModel",
            "fetch", "json">>

DemoInit ==
    /\ nb = "augmenting"
    /\ Unbuilt
    /\ cachedirData = FALSE
    /\ cacheFiles = {}
    /\ kernel = "fresh"
    /\ run = 0
    /\ DemoNotLoaded

notDemo == <<pipeline, concurrent, extraction, resampling, oversampling, construction>>

stopApp_keep_interval ==
    /\ running' = FALSE
    /\ stops' = stops + 1
    /\ UNCHANGED <<renderIntervalID, timer>>

\* stopApp
stopApp ==
    /\ running' = FALSE
    /\ stops' = stops + 1
    /\ IF renderIntervalID > 0
       THEN /\ timer' = IF timer = renderIntervalID THEN 0 ELSE timer
            /\ renderIntervalID' = 0
       ELSE UNCHANGED <<renderIntervalID, timer>>

\* fatalError logs the error and stops the app
fatalError == stopApp

\* the body of handleMicrophoneInput behind its guard: the log-mel model is
\* executed, the spectrogram is handed to toPixels, the x-vector model
\* predicts and the label update is chained to the prediction's data()
handleMicrophoneInput_unguarded ==
    /\ executed' = executed + 1
    /\ pixels' = pixels + 1
    /\ predictions' = predictions + 1
    /\ UNCHANGED ignored

\* handleMicrophoneInput
handleMicrophoneInput ==
    IF ~running
    THEN /\ ignored' = TRUE
         /\ UNCHANGED <<executed, pixels, predictions>>
    ELSE /\ executed' = executed + 1
         /\ pixels' = pixels + 1
         /\ predictions' = predictions + 1
         /\ UNCHANGED ignored

\* document's DOMContentLoaded listener calls main, which runs up to its
\* first await
DOMContentLoaded ==
    /\ mainAt = "load"
    /\ mainAt' = Awaits[1]
    /\ UNCHANGED <<notDemo, running, renderIntervalID, timer, ticks, captures, pixels,
                   predictions, executed, label, ignored, unhandled, stops>>

\* the promise main awaits is fulfilled and main runs on to its next await
MainResumes ==
    /\ \E k \in 1..(Len(Awaits) - 1) :
          /\ mainAt = Awaits[k]
          /\ mainAt' = Awaits[k + 1]
    /\ UNCHANGED <<notDemo, running, renderIntervalID, timer, ticks, captures, pixels,
                   predictions, executed, label, ignored, unhandled, stops>>

\* the last promise main awaits is fulfilled: state.running = true, then
\* startListenLoop(mic) sets the interval and keeps its id
MainStartsApp ==
    /\ mainAt = Awaits[Len(Awaits)]
    /\ mainAt' = "returned"
    /\ running' = TRUE
    /\ timer' = 1
    /\ renderIntervalID' = 1
    /\ UNCHANGED <<notDemo, ticks, captures, pixels, predictions, executed, label,
                   ignored, unhandled, stops>>

\* the promise main awaits is rejected: main().catch(fatalError)
MainRejects ==
    /\ \E k \in 1..Len(Awaits) : mainAt = Awaits[k]
    /\ mainAt' = "rejected"
    /\ fatalError
    /\ UNCHANGED <<notDemo, ticks, captures, pixels, predictions, executed, label,
                   ignored, unhandled>>

\* the interval fires: mic.capture()
Tick ==
    /\ timer > 0
    /\ ticks < MaxTicks
    /\ ticks' = ticks + 1
    /\ captures' = captures + 1
    /\ UNCHANGED <<notDemo, running, renderIntervalID, mainAt, timer, pixels, predictions,
                   executed, label, ignored, unhandled, stops>>

\* a capture is fulfilled: .then(micData => handleMicrophoneInput(micData))
CaptureResolves ==
    /\ captures > 0
    /\ captures' = captures - 1
    /\ handleMicrophoneInput
    /\ UNCHANGED <<notDemo, running, renderIntervalID, mainAt, timer, ticks, label,
                   unhandled, stops>>

\* a capture is fulfilled and handleMicrophoneInput throws behind its guard
\* (in execute, in spectrogramToCanvas or in predict): .catch(fatalError)
HandlerThrows ==
    /\ captures > 0
    /\ running
    /\ captures' = captures - 1
    /\ fatalError
    /\ UNCHANGED <<notDemo, mainAt, ticks, pixels, predictions, executed, label,
                   ignored, unhandled>>

\* a capture is rejected: .catch(fatalError)
CaptureRejects ==
    /\ captures > 0
    /\ captures' = captures - 1
    /\ fatalError
    /\ UNCHANGED <<notDemo, mainAt, ticks, pixels, predictions, executed, label,
                   ignored, unhandled>>

\* tf.browser.toPixels has drawn the image
PixelsResolve ==
    /\ pixels > 0
    /\ pixels' = pixels - 1
    /\ UNCHANGED <<notDemo, running, renderIntervalID, mainAt, timer, ticks, captures,
                   predictions, executed, label, ignored, unhandled, stops>>

\* tf.browser.toPixels(image, canvas).catch(fatalError)
PixelsReject ==
    /\ pixels > 0
    /\ pixels' = pixels - 1
    /\ fatalError
    /\ UNCHANGED <<notDemo, mainAt, ticks, captures, predictions, executed, label,
                   ignored, unhandled>>

\* prediction.argMax(1).data().then(updatePredictionLabel): the label is set
PredictionResolves ==
    /\ predictions > 0
    /\ predictions' = predictions - 1
    /\ label' = label + 1
    /\ UNCHANGED <<notDemo, running, renderIntervalID, mainAt, timer, ticks, captures,
                   pixels, executed, ignored, unhandled, stops>>

\* data() is rejected or updatePredictionLabel throws: the chain ends at
\* .then(updatePredictionLabel), nothing handles the rejection
PredictionRejects ==
    /\ predictions > 0
    /\ predictions' = predictions - 1
    /\ unhandled' = TRUE
    /\ UNCHANGED <<notDemo, running, renderIntervalID, mainAt, timer, ticks, captures,
                   pixels, executed, label, ignored, stops>>

\* the page calls the exported stopApp
StopApp ==
    /\ stops < MaxStops
    /\ stopApp
    /\ UNCHANGED <<notDemo, mainAt, ticks, captures, pixels, predictions, executed,
                   label, ignored, unhandled>>

NextDemo ==
    \/ DOMContentLoaded
    \/ MainResumes
    \/ MainStartsApp
    \/ MainRejects
    \/ Tick
    \/ CaptureResolves
    \/ HandlerThrows
    \/ CaptureRejects
    \/ PixelsResolve
    \/ PixelsReject
    \/ PredictionResolves
    \/ PredictionRejects
    \/ StopApp

SpecDemo == DemoInit /\ [][NextDemo]_vars

\* C23: handleMicrophoneInput called while state.running is false does
\* nothing: no model is executed, nothing is handed to the canvas, no
\* prediction is started and the label is left as it is.
C23_IgnoredWhenNotRunning ==
    [][(captures' = captures - 1 /\ ~running)
       => /\ executed' = executed
          /\ pixels' = pixels
          /\ predictions' = predictions
          /\ label' = label]_vars

\* a capture that was pending when the app was stopped has been fulfilled
\* and handleMicrophoneInput has returned at its guard
C23_Witness ==
    /\ ignored
    /\ stops > 0
    /\ ~running
    /\ ticks > 0

\* C24 (as claimed): every error raised in the demo (in main, in a capture,
\* in handleMicrophoneInput, in the rendering to the canvas, in the
\* prediction or the label update) reaches fatalError and leaves the app
\* stopped, with state.running false and no interval active.
C24_EveryErrorStops ==
    [][(\/ MainRejects
        \/ CaptureRejects
        \/ HandlerThrows
        \/ PixelsReject
        \/ PredictionRejects)
       => (stops' = stops + 1 /\ ~running' /\ renderIntervalID' = 0 /\ timer' = 0)]_vars

\* C25 (as claimed): once stopApp has run, state.running stays false and no
\* further capture is issued, also when stopApp ran while main was awaiting.
C25_StopIsFinal ==
    [][stops > 0 => (~running' /\ captures' <= captures)]_vars

\* C26 (as claimed): after stopApp has run the prediction label is not
\* assigned again, whatever was in flight when the app was stopped.
C26_NoLabelAfterStop ==
    [][stops > 0 => label' = label]_vars

\* C27: between any two tasks an interval is active, and its id kept in
\* state.renderIntervalID, only while state.running is true, and every run
\* of stopApp, the first as any later one, leaves state.running false and
\* state.renderIntervalID 0 with no interval active.
C27_IntervalOnlyWhileRunning ==
    [][/\ (timer' > 0 \/ renderIntervalID' > 0) => running'
       /\ renderIntervalID' = timer'
       /\ stops' > stops => (~running' /\ renderIntervalID' = 0 /\ timer' = 0)]_vars

\* the running app with its interval active was stopped, and stopApp has
\* then run a second time
C27_Witness ==
    /\ stops >= 2
    /\ ticks > 0
    /\ mainAt = "returned"
    /\ ~running
    /\ renderIntervalID = 0
====
